---------------------------- MODULE Spec2Model ----------------------------
(***************************************************************************)
(* argparseqt: dialogs generated from an argparse parser.                  *)
(*                                                                         *)
(* The module models                                                       *)
(*   - the wrapped widgets of wrappedWidgets.py (the controls, the         *)
(*     ResetableWidget wrapper, makeWidget),                               *)
(*   - the grouping functions of groupingTools.py,                         *)
(*   - the dialog of gui.py (group list, stacked panels, form rows).       *)
(*                                                                         *)
(* Python values are tagged tuples, so that values of different Python     *)
(* types are different and can be compared: None is <<"None">>, the str    *)
(* "a" is <<"str", "a">>, the int 1 is <<"int", 1>>, and so on.  A float   *)
(* is counted in units of 10^-5, one digit more than the four decimals a   *)
(* DoubleSpinBox keeps.                                                    *)
(***************************************************************************)
EXTENDS Integers, Sequences, FiniteSets, TLC

VARIABLES
    mode,             \* which specification is running: "widget", "parser" or "dialog"
    serialLoaded,     \* 'serial' in sys.modules
    comports,         \* serial.tools.list_ports.comports(), the devices
    argument,         \* widget level: the argparse.Action the widget is made for
    widget,           \* widget level: the ResetableWidget returned by makeWidget
    emitted,          \* the last operation made the option's widget emit valueChanged
    last,             \* the last operation, with its argument
    parser,           \* the parser: the sequence parser._action_groups
    orphanGroupName,  \* ArgparseListWidget.orphanGroupname
    groupList,        \* ArgparseListWidget.groupList: the item texts
    widgetStack,      \* ArgparseListWidget.widgetStack: the ArgGroupWidgets
    valueAdjusted,    \* the last operation made ArgDialog emit valueAdjusted
    groups,           \* the last result of parseIntoGroups
    settings          \* the last result of getValues

vars == <<mode, serialLoaded, comports, argument, widget, emitted, last, parser,
          orphanGroupName, groupList, widgetStack, valueAdjusted, groups, settings>>

-----------------------------------------------------------------------------
(* Bounds of the model *)

MaxKids == 2          \* items a list widget holds at most
MaxRowKids == 1       \* items the user adds to a list widget of the dialog
MaxTried == 1         \* colours tried in one run of the colour dialog
MaxUserGroups == 2    \* groups added with add_argument_group
MaxActions == 2       \* actions of one group

-----------------------------------------------------------------------------
(* Python values *)

None == <<"None">>
StrV(s) == <<"str", s>>
IntV(n) == <<"int", n>>
FloatV(n) == <<"float", n>>
BoolV(b) == <<"bool", b>>
PathV(p) == <<"path", p>>
TupleV(t) == <<"tuple", t>>
ListV(s) == <<"list", s>>

Tag(v) == v[1]
Payload(v) == v[2]

Digits == <<"0", "1", "2", "3", "4", "5", "6", "7", "8", "9">>

\* str(val), for the values a text control is given
StrOf(val) ==
    CASE Tag(val) = "str" -> Payload(val)
      [] Tag(val) = "path" -> Payload(val)
      [] Tag(val) = "int" ->
            IF Payload(val) \in 0..9 THEN Digits[Payload(val) + 1] ELSE "int"
      [] Tag(val) = "None" -> "None"
      [] OTHER -> "repr"

\* str(pathlib.Path(text)): the empty path is the current directory
PathOf(text) == IF text = "" THEN "." ELSE text

-----------------------------------------------------------------------------
(* The controls.  One record shape serves every control; a control uses the
   fields its class has. *)

Control(kind) ==
    [kind |-> kind, text |-> "", num |-> 0, items |-> <<>>, currentIndex |-> -1,
     colorValue |-> <<>>, hasAlpha |-> FALSE, dialog |-> <<>>,
     subDataType |-> "NoType", kids |-> <<>>]

\* what a control's method returns: the control afterwards, and whether its
\* change signal was emitted meanwhile
Done(c, sig) == [c |-> c, emitted |-> sig]

minimum == -(2^30)
maximum == 2^30

Clamp(n) == IF n < minimum THEN minimum ELSE IF n > maximum THEN maximum ELSE n

\* QDoubleSpinBox rounds to its decimals (4): to a multiple of 10 units
Round4(n) == ((n + 5) \div 10) * 10

LineEdit == Control("LineEdit")
SpinBox == Control("SpinBox")
DoubleSpinBox == Control("DoubleSpinBox")

\* ComboBox.setOptions: an empty entry, a separator, then the values
setOptions(c, values) ==
    [c EXCEPT !.items = <<None, None>> \o values, !.currentIndex = 0]

ComboBox(values) == setOptions(Control("ComboBox"), values)
BoolSelector == setOptions(Control("BoolSelector"), <<BoolV(TRUE), BoolV(FALSE)>>)
SerialPortChooser == setOptions(Control("SerialPortChooser"), comports)
FileChooser == Control("FileChooser")

Zeros(hasAlpha) == IF hasAlpha THEN <<0, 0, 0, 0>> ELSE <<0, 0, 0>>

ColorWidget(hasAlpha) ==
    [Control("ColorWidget") EXCEPT !.hasAlpha = hasAlpha, !.colorValue = Zeros(hasAlpha)]

IsListType(dataType) == dataType \in {"list", "List", "ListInt", "ListBool", "ListPath"}

\* typing.get_args(dataType)[0], str when there is none
SubDataType(dataType) ==
    CASE dataType = "ListInt" -> "int"
      [] dataType = "ListBool" -> "bool"
      [] dataType = "ListPath" -> "Path"
      [] OTHER -> "str"

ListWidget(dataType) ==
    [Control("ListWidget") EXCEPT !.subDataType = SubDataType(dataType)]

IsCombo(c) == c.kind \in {"ComboBox", "BoolSelector"}
HasComboInside(c) == c.kind \in {"ComboBox", "BoolSelector", "SerialPortChooser"}

currentData(c) ==
    IF c.currentIndex < 0 \/ c.currentIndex >= Len(c.items) THEN None
    ELSE c.items[c.currentIndex + 1]

\* the first index i with val == itemData(i), or -1
FindData(c, val) ==
    IF \E i \in 1..Len(c.items) : c.items[i] = val
    THEN (CHOOSE i \in 1..Len(c.items) :
             /\ c.items[i] = val
             /\ \A j \in 1..(i - 1) : c.items[j] # val) - 1
    ELSE -1

setCurrentIndex(c, i) == Done([c EXCEPT !.currentIndex = i], i # c.currentIndex)

ComboBox_setValue(c, val) ==
    IF FindData(c, val) >= 0 THEN setCurrentIndex(c, FindData(c, val)) ELSE Done(c, FALSE)

setText(c, t) == Done([c EXCEPT !.text = t], t # c.text)

LineEdit_setValue(c, val) == setText(c, StrOf(val))

SpinBox_setValue(c, val) ==
    IF val = None THEN Done(c, FALSE)
    ELSE Done([c EXCEPT !.num = Clamp(Payload(val))], Clamp(Payload(val)) # c.num)

DoubleSpinBox_setValue(c, val) ==
    IF val = None THEN Done(c, FALSE)
    ELSE Done([c EXCEPT !.num = Clamp(Round4(Payload(val)))],
              Clamp(Round4(Payload(val))) # c.num)

\* the text box of a file chooser is connected to nothing
FileChooser_setValue(c, val) == Done([c EXCEPT !.text = StrOf(val)], FALSE)

ColorWidget_setValue(c, val) == Done([c EXCEPT !.colorValue = Payload(val)], FALSE)

\* ColorWidget.clearValue
ColorWidget_clearValue(c) == ColorWidget_setValue(c, TupleV(Zeros(c.hasAlpha)))

\* QColor(*colorValue): a colour without alpha is opaque
QColor(t) == IF Len(t) = 3 THEN t \o <<255>> ELSE t

\* ColorWidget.toTuple
toTuple(c) == IF c.hasAlpha THEN c.dialog ELSE SubSeq(c.dialog, 1, 3)

\* ColorWidget.onColorAdjusted, run when the dialog's current colour changes
onColorAdjusted(c, color) ==
    LET d == [c EXCEPT !.dialog = color]
    IN  [d EXCEPT !.colorValue = toTuple(d)]

RECURSIVE AdjustAll(_, _)
AdjustAll(c, tried) ==
    IF tried = <<>> THEN c
    ELSE AdjustAll(onColorAdjusted(c, Head(tried)), Tail(tried))

\* the colours of `tried` that change the dialog's current colour, in turn
RECURSIVE Changes(_, _)
Changes(color, tried) ==
    IF tried = <<>> THEN <<>>
    ELSE IF Head(tried) = color THEN Changes(color, Tail(tried))
    ELSE <<Head(tried)>> \o Changes(Head(tried), Tail(tried))

\* ColorWidget.onClick: the dialog runs, the user tries the colours of
\* `tried` and then accepts or not
ColorWidget_onClick(c, tried, accepted) ==
    LET opened == IF c.dialog = <<>> THEN [c EXCEPT !.dialog = QColor(c.colorValue)] ELSE c
        preservedValue == opened.colorValue
        changes == Changes(opened.dialog, tried)
        after == AdjustAll(opened, changes)
    IN  IF accepted THEN Done(after, changes # <<>>)
        ELSE Done([after EXCEPT !.colorValue = preservedValue], TRUE)

\* FileChooser._browse: the file dialog returns selectedFile, '' when cancelled
FileChooser_browse(c, selectedFile) ==
    IF selectedFile # ""
    THEN Done(FileChooser_setValue(c, PathV(PathOf(selectedFile))).c, TRUE)
    ELSE Done(c, FALSE)

\* SerialPortChooser.refreshPorts: the combo box is emptied and filled again.
\* Its text changes, and the signal is emitted, when a device was current;
\* sig is whether the toolkit emits it when the empty entry was current.
refreshPorts(c, sig) == Done(setOptions(c, comports), c.currentIndex # 0 \/ sig)

-----------------------------------------------------------------------------
(* ResetableWidget, and the list widget whose items are ResetableWidgets *)

Did(w, sig) == [w |-> w, emitted |-> sig]

ResetableWidget(c, defaultValue) ==
    [widget |-> c, defaultValue |-> defaultValue, nullable |-> ~IsCombo(c), nulled |-> TRUE]

clearNull(w) == [w EXCEPT !.nulled = FALSE]

\* the wrapper after its control ran a method: the control's change signal
\* is connected to clearNull
Signal(w, r) ==
    IF r.emitted THEN clearNull([w EXCEPT !.widget = r.c]) ELSE [w EXCEPT !.widget = r.c]

RECURSIVE ResetableWidget_value(_)
RECURSIVE ResetableWidget_setValue(_, _)
RECURSIVE makeWidgetOfType(_)

ListWidget_value(c) ==
    ListV([i \in 1..Len(c.kids) |-> ResetableWidget_value(c.kids[i])])

ListWidget_addKid(c) ==
    Done([c EXCEPT !.kids = Append(@, makeWidgetOfType(c.subDataType))], FALSE)

abandonChildren(c) == [c EXCEPT !.kids = <<>>]

ListWidget_clearValue(c) == Done(abandonChildren(c), FALSE)

\* a plausible slip: the items the list holds already are kept
setValueKeepingItems(c, values) ==
    LET vs == Payload(values)
        kid(i) == ResetableWidget_setValue(makeWidgetOfType(c.subDataType), vs[i])
    IN  Done([c EXCEPT !.kids = @ \o [i \in 1..Len(vs) |-> kid(i).w]],
             \E i \in 1..Len(vs) : kid(i).emitted)

\* ListWidget.setValue: each new item is set after it is connected, so an item
\* that changes makes the list emit valueChanged
ListWidget_setValue(c, values) ==
    LET vs == Payload(values)
        kid(i) == ResetableWidget_setValue(makeWidgetOfType(c.subDataType), vs[i])
    IN  Done([c EXCEPT !.kids = [i \in 1..Len(vs) |-> kid(i).w]],
             \E i \in 1..Len(vs) : kid(i).emitted)

\* ListWidgetItem.abandon of the item at position i
abandon(c, i) ==
    Done([c EXCEPT !.kids = SubSeq(@, 1, i - 1) \o SubSeq(@, i + 1, Len(@))], FALSE)

\* an item's own operation gave r: ListWidget.onChildValueChanged passes its signal on
onChildValueChanged(c, i, r) == Done([c EXCEPT !.kids[i] = r.w], r.emitted)

\* widget.value() of the control
Control_value(c) ==
    CASE c.kind = "LineEdit" -> StrV(c.text)
      [] c.kind = "SpinBox" -> IntV(c.num)
      [] c.kind = "DoubleSpinBox" -> FloatV(c.num)
      [] HasComboInside(c) -> currentData(c)
      [] c.kind = "ColorWidget" -> TupleV(c.colorValue)
      [] c.kind = "FileChooser" -> PathV(PathOf(c.text))
      [] c.kind = "ListWidget" -> ListWidget_value(c)

\* widget.setValue(val) of the control
Control_setValue(c, val) ==
    CASE c.kind = "LineEdit" -> LineEdit_setValue(c, val)
      [] c.kind = "SpinBox" -> SpinBox_setValue(c, val)
      [] c.kind = "DoubleSpinBox" -> DoubleSpinBox_setValue(c, val)
      [] HasComboInside(c) -> ComboBox_setValue(c, val)
      [] c.kind = "ColorWidget" -> ColorWidget_setValue(c, val)
      [] c.kind = "FileChooser" -> FileChooser_setValue(c, val)
      [] c.kind = "ListWidget" -> ListWidget_setValue(c, val)

\* widget.clearValue() of the control: its own, or the clear() the wrapper
\* installs under that name
Control_clearValue(c) ==
    CASE c.kind = "LineEdit" -> setText(c, "")
      [] c.kind \in {"SpinBox", "DoubleSpinBox"} -> Done(c, FALSE)
      [] HasComboInside(c) -> ComboBox_setValue(c, None)
      [] c.kind = "ColorWidget" -> ColorWidget_clearValue(c)
      [] c.kind = "FileChooser" -> Done([c EXCEPT !.text = ""], FALSE)
      [] c.kind = "ListWidget" -> ListWidget_clearValue(c)

ResetableWidget_value(w) ==
    IF w.nullable /\ w.nulled THEN None ELSE Control_value(w.widget)

\* a plausible slip: the flag is set before the control is cleared, so a
\* change signal of the clearing resets it
SetValueFlagFirst(w, value) ==
    IF w.nullable /\ value = None
    THEN LET r == Control_clearValue(w.widget)
         IN  Did(Signal([w EXCEPT !.nulled = TRUE], r), r.emitted)
    ELSE LET r == Control_setValue(w.widget, value)
         IN  Did([Signal(w, r) EXCEPT !.nulled = FALSE], r.emitted)

ResetableWidget_setValue(w, value) ==
    IF w.nullable /\ value = None
    THEN LET r == Control_clearValue(w.widget)
         IN  Did([Signal(w, r) EXCEPT !.nulled = TRUE], r.emitted)
    ELSE LET r == Control_setValue(w.widget, value)
         IN  Did([Signal(w, r) EXCEPT !.nulled = FALSE], r.emitted)

reset(w) == ResetableWidget_setValue(w, w.defaultValue)

ResetableWidget_clearValue(w) == ResetableWidget_setValue(w, None)

\* the wrapper after the user operated its control, with result r
UserOp(w, r) == Did(Signal(w, r), r.emitted)

-----------------------------------------------------------------------------
(* makeWidget *)

NoWidget == Control("None")

\* a plausible slip: the data type is looked at before the choices
makeWidgetTypeFirst(chosen, dataType, choices) ==
    IF chosen # NoWidget THEN chosen
    ELSE IF dataType = "int" THEN SpinBox
    ELSE IF dataType = "float" THEN DoubleSpinBox
    ELSE IF dataType = "bool" THEN BoolSelector
    ELSE IF choices # None THEN ComboBox(Payload(choices))
    ELSE IF dataType = "rgb" THEN ColorWidget(FALSE)
    ELSE IF dataType = "rgba" THEN ColorWidget(TRUE)
    ELSE IF dataType = "Path" THEN FileChooser
    ELSE IF serialLoaded /\ dataType = "Serial" THEN SerialPortChooser
    ELSE IF IsListType(dataType) THEN ListWidget(dataType)
    ELSE LineEdit

\* lines 44-73: the control for a data type and choices, unless the action
\* class chose one already
makeWidgetControl(chosen, dataType, choices) ==
    IF chosen # NoWidget THEN chosen
    ELSE IF choices # None THEN ComboBox(Payload(choices))
    ELSE IF dataType = "int" THEN SpinBox
    ELSE IF dataType = "float" THEN DoubleSpinBox
    ELSE IF dataType = "bool" THEN BoolSelector
    ELSE IF dataType = "rgb" THEN ColorWidget(FALSE)
    ELSE IF dataType = "rgba" THEN ColorWidget(TRUE)
    ELSE IF dataType = "Path" THEN FileChooser
    ELSE IF serialLoaded /\ dataType = "Serial" THEN SerialPortChooser
    ELSE IF IsListType(dataType) THEN ListWidget(dataType)
    ELSE LineEdit

\* makeWidget(argument, choices=choices): an argparse.Action is given
makeWidget(arg, choices) ==
    LET chosen == IF arg.action = "store_const" THEN ComboBox(<<arg.const>>)
                  ELSE IF arg.action \in {"store_true", "store_false"} THEN BoolSelector
                  ELSE NoWidget
        c == makeWidgetControl(chosen, arg.type,
                               IF choices # None THEN choices ELSE arg.choices)
    IN  ResetableWidget_setValue(ResetableWidget(c, arg.default), arg.default).w

\* makeWidget(dataType): a type is given, as ListWidget._addKid does
makeWidgetOfType(dataType) ==
    LET c == makeWidgetControl(NoWidget, dataType, None)
    IN  ResetableWidget_setValue(ResetableWidget(c, None), None).w

-----------------------------------------------------------------------------
(* The inputs: actions a parser can hold, values a caller can set, what a
   user can enter *)

Texts == {"", "a", "5"}
Files == {"", "f"}
Ints == {0, 5}
Floats == {0, 20}
Devices == {StrV("p1"), StrV("p2")}

SomeChoices == ListV(<<IntV(1), IntV(2)>>)

Types == {"NoType", "str", "int", "float", "bool", "rgb", "rgba", "Path", "Serial",
          "list", "ListInt", "other"}

\* the defaults an action of a type is declared with; argparse checks a
\* default neither against the choices nor against the type
DefaultsOf(dataType, choices) ==
    {None} \cup
    (CASE choices # None -> {IntV(1), IntV(5)}
       [] dataType = "NoType" -> {StrV("a"), IntV(5)}
       [] dataType \in {"str", "other"} -> {StrV("a")}
       [] dataType = "int" -> {IntV(0), IntV(5)}
       [] dataType = "float" -> {FloatV(0), FloatV(20), FloatV(15)}
       [] dataType = "bool" -> {BoolV(TRUE)}
       [] dataType = "rgb" -> {TupleV(<<1, 2, 3>>)}
       [] dataType = "rgba" -> {TupleV(<<1, 2, 3, 4>>)}
       [] dataType = "Path" -> {PathV("f")}
       [] dataType = "Serial" -> {StrV("p1")}
       [] dataType = "list" -> {ListV(<<>>), ListV(<<StrV("a")>>)}
       [] dataType = "ListInt" -> {ListV(<<IntV(5)>>)}
       [] OTHER -> {})

Action(kind, dest, dataType, choices, default, const) ==
    [action |-> kind, dest |-> dest, type |-> dataType, choices |-> choices,
     default |-> default, const |-> const]

StoreActions(dest) ==
    UNION {UNION {{Action("store", dest, t, ch, d, None) : d \in DefaultsOf(t, ch)}
                  : ch \in {None, SomeChoices}} : t \in Types}

\* the store_const, store_true and store_false actions carry neither a type
\* nor choices
FlagActions(dest) ==
    {Action("store_const", dest, "NoType", None, d, IntV(9)) : d \in {None, IntV(0)}}
    \cup {Action("store_true", dest, "NoType", None, BoolV(FALSE), BoolV(TRUE)),
          Action("store_false", dest, "NoType", None, BoolV(TRUE), BoolV(FALSE))}

Arguments == StoreActions("x") \cup FlagActions("x")

SeqsUpTo(S, n) == UNION {[1..k -> S] : k \in 0..n}

\* the values of a control's type: what a well-typed caller gives setValue,
\* besides None
LeafValues(c) ==
    CASE c.kind = "LineEdit" -> {StrV(t) : t \in Texts}
      [] c.kind = "SpinBox" -> {IntV(n) : n \in Ints}
      [] c.kind = "DoubleSpinBox" -> {FloatV(n) : n \in Floats \cup {15}}
      [] c.kind = "BoolSelector" -> {BoolV(TRUE), BoolV(FALSE)}
      [] c.kind = "ComboBox" -> {c.items[i] : i \in 3..Len(c.items)} \cup {IntV(5)}
      [] c.kind = "SerialPortChooser" -> Devices
      [] c.kind = "ColorWidget" ->
            IF c.hasAlpha THEN {TupleV(<<0, 0, 0, 0>>), TupleV(<<1, 2, 3, 4>>)}
            ELSE {TupleV(<<0, 0, 0>>), TupleV(<<1, 2, 3>>)}
      [] c.kind = "FileChooser" -> {PathV("."), PathV("f")}
      [] OTHER -> {}

ValuesOf(c) ==
    IF c.kind = "ListWidget"
    THEN {ListV(s) : s \in SeqsUpTo(LeafValues(makeWidgetOfType(c.subDataType).widget)
                                      \cup {None}, MaxKids)}
    ELSE LeafValues(c)

\* the colours the dialog of a colour widget can show
DialogColours(c) ==
    IF c.hasAlpha THEN {<<0, 0, 0, 0>>, <<1, 2, 3, 4>>, <<1, 2, 3, 255>>}
    ELSE {<<0, 0, 0, 255>>, <<1, 2, 3, 255>>}

\* what one user operation on the control of a wrapper that holds no items
\* can give: the wrapper afterwards, and whether it emitted valueChanged
UserOps(w) ==
    LET c == w.widget
    IN  CASE c.kind = "LineEdit" -> {UserOp(w, setText(c, t)) : t \in Texts}
          [] c.kind = "SpinBox" ->
                {UserOp(w, SpinBox_setValue(c, IntV(n))) : n \in Ints}
          [] c.kind = "DoubleSpinBox" ->
                {UserOp(w, DoubleSpinBox_setValue(c, FloatV(n))) : n \in Floats}
          [] HasComboInside(c) ->
                {UserOp(w, setCurrentIndex(c, i)) : i \in (0..(Len(c.items) - 1)) \ {1}}
          [] c.kind = "ColorWidget" ->
                {UserOp(w, ColorWidget_onClick(c, tried, accepted)) :
                    tried \in SeqsUpTo(DialogColours(c), MaxTried), accepted \in BOOLEAN}
          [] c.kind = "FileChooser" ->
                {UserOp(w, FileChooser_browse(c, f)) : f \in Files}
                \cup {UserOp(w, Done([c EXCEPT !.text = t], FALSE)) : t \in Files}
          [] OTHER -> {}

-----------------------------------------------------------------------------
(* One widget: makeWidget, then the caller's and the user's operations *)

Op(name, arg) == [op |-> name, arg |-> arg, raised |-> FALSE]

NoParser == <<>>
NoDialog == <<>>
NoResult == <<"no result">>

InitWidget ==
    /\ mode = "widget"
    /\ serialLoaded \in BOOLEAN
    /\ comports \in {<<>>, <<StrV("p1")>>}
    /\ argument \in Arguments
    /\ widget = makeWidget(argument, None)
    /\ emitted = FALSE
    /\ last = Op("makeWidget", None)
    /\ parser = NoParser
    /\ orphanGroupName = ""
    /\ groupList = <<>>
    /\ widgetStack = NoDialog
    /\ valueAdjusted = FALSE
    /\ groups = NoResult
    /\ settings = NoResult

WidgetStep(r, name, arg) ==
    /\ widget' = r.w
    /\ emitted' = r.emitted
    /\ last' = Op(name, arg)
    /\ UNCHANGED <<mode, serialLoaded, comports, argument, parser, orphanGroupName,
                   groupList, widgetStack, valueAdjusted, groups, settings>>

SetValue ==
    \E val \in ValuesOf(widget.widget) \cup {None} :
        WidgetStep(ResetableWidget_setValue(widget, val), "setValue", val)

ClearValue == WidgetStep(ResetableWidget_clearValue(widget), "clearValue", None)

Reset == WidgetStep(reset(widget), "reset", None)

UserType ==
    /\ widget.widget.kind = "LineEdit"
    /\ \E t \in Texts :
          WidgetStep(UserOp(widget, setText(widget.widget, t)), "type", StrV(t))

UserSpin ==
    \/ /\ widget.widget.kind = "SpinBox"
       /\ \E n \in Ints :
             WidgetStep(UserOp(widget, SpinBox_setValue(widget.widget, IntV(n))),
                        "spin", IntV(n))
    \/ /\ widget.widget.kind = "DoubleSpinBox"
       /\ \E n \in Floats :
             WidgetStep(UserOp(widget, DoubleSpinBox_setValue(widget.widget, FloatV(n))),
                        "spin", FloatV(n))

UserChoose ==
    /\ HasComboInside(widget.widget)
    /\ \E i \in (0..(Len(widget.widget.items) - 1)) \ {1} :
          WidgetStep(UserOp(widget, setCurrentIndex(widget.widget, i)), "choose", IntV(i))

ClickColour ==
    /\ widget.widget.kind = "ColorWidget"
    /\ \E tried \in SeqsUpTo(DialogColours(widget.widget), MaxTried), accepted \in BOOLEAN :
          WidgetStep(UserOp(widget, ColorWidget_onClick(widget.widget, tried, accepted)),
                     "click", BoolV(accepted))

Browse ==
    /\ widget.widget.kind = "FileChooser"
    /\ \E f \in Files :
          WidgetStep(UserOp(widget, FileChooser_browse(widget.widget, f)), "browse", StrV(f))

\* the user types into the text box of the file chooser
TypePath ==
    /\ widget.widget.kind = "FileChooser"
    /\ \E t \in Files :
          WidgetStep(UserOp(widget, Done([widget.widget EXCEPT !.text = t], FALSE)),
                     "typePath", StrV(t))

RefreshPorts ==
    /\ widget.widget.kind = "SerialPortChooser"
    /\ \E sig \in BOOLEAN :
          WidgetStep(UserOp(widget, refreshPorts(widget.widget, sig)), "refresh", None)

AddItem ==
    /\ widget.widget.kind = "ListWidget"
    /\ Len(widget.widget.kids) < MaxKids
    /\ WidgetStep(UserOp(widget, ListWidget_addKid(widget.widget)), "addItem", None)

AbandonItem ==
    /\ widget.widget.kind = "ListWidget"
    /\ \E i \in 1..Len(widget.widget.kids) :
          WidgetStep(UserOp(widget, abandon(widget.widget, i)), "abandon", IntV(i))

\* the user operates the control of an item
EditItem ==
    /\ widget.widget.kind = "ListWidget"
    /\ \E i \in 1..Len(widget.widget.kids) :
          \E r \in UserOps(widget.widget.kids[i]) :
              WidgetStep(UserOp(widget, onChildValueChanged(widget.widget, i, r)),
                         "editItem", IntV(i))

\* the user presses the reset button of an item
ResetItem ==
    /\ widget.widget.kind = "ListWidget"
    /\ \E i \in 1..Len(widget.widget.kids) :
          WidgetStep(UserOp(widget, onChildValueChanged(widget.widget, i,
                                                        reset(widget.widget.kids[i]))),
                     "resetItem", IntV(i))

NextWidget ==
    \/ SetValue
    \/ ClearValue
    \/ Reset
    \/ UserType
    \/ UserSpin
    \/ UserChoose
    \/ ClickColour
    \/ Browse
    \/ TypePath
    \/ RefreshPorts
    \/ AddItem
    \/ AbandonItem
    \/ EditItem
    \/ ResetItem

SpecWidget == InitWidget /\ [][NextWidget]_vars

-----------------------------------------------------------------------------
(* groupingTools.py.  A parser is the sequence parser._action_groups; a group
   is its title and the sequence group._group_actions.  A dict is a function
   on its keys, tagged "dict" where it is a value among others. *)

DictV(f) == <<"dict", f>>
EmptyDict == [k \in {} |-> None]

\* d[key] = val
Put(d, key, val) ==
    [k \in DOMAIN d \cup {key} |-> IF k = key THEN val ELSE d[k]]

\* {**d, **e}
Merge(d, e) ==
    [k \in DOMAIN d \cup DOMAIN e |-> IF k \in DOMAIN e THEN e[k] ELSE d[k]]

Reserved == {"positional arguments", "optional arguments"}

Group(title, actions) == [title |-> title, actions |-> actions]

IsHelp(a) == a.action = "help"

HelpAction == Action("help", "help", "NoType", None, None, None)

Positions(g) == {k \in 1..Len(g.actions) : ~IsHelp(g.actions[k])}

Dests(g) == {g.actions[k].dest : k \in Positions(g)}

\* the entries of groups[group], in the order of the dict: a name stands
\* where it came first and holds the last action that has it
Arguments_values(g) ==
    LET firsts == SelectSeq([k \in 1..Len(g.actions) |-> k],
                            LAMBDA k : /\ k \in Positions(g)
                                       /\ \A j \in Positions(g) :
                                             j < k => g.actions[j].dest # g.actions[k].dest)
        lastOf(k) == CHOOSE m \in Positions(g) :
                        /\ g.actions[m].dest = g.actions[k].dest
                        /\ \A j \in Positions(g) :
                              g.actions[j].dest = g.actions[k].dest => j <= m
    IN  [i \in 1..Len(firsts) |-> lastOf(firsts[i])]

\* organizeIntoGroups: for each group, in order, the positions in
\* group._group_actions of the actions its dict holds
organizeIntoGroups(p) == [gi \in 1..Len(p) |-> Arguments_values(p[gi])]

\* the loop over group._group_actions of parseIntoGroups, on groupDict
RECURSIVE parseActions(_, _, _)
parseActions(actions, args, groupDict) ==
    IF actions = <<>> THEN groupDict
    ELSE parseActions(Tail(actions), args,
                      IF IsHelp(Head(actions)) THEN groupDict
                      ELSE Put(groupDict, Head(actions).dest, args[Head(actions).dest]))

\* a plausible slip: a named group is flattened like the reserved ones
RECURSIVE parseFlat(_, _, _)
parseFlat(gs, args, d) ==
    IF gs = <<>> THEN d
    ELSE parseFlat(Tail(gs), args, parseActions(Head(gs).actions, args, d))

\* the loop over parser._action_groups of parseIntoGroups
RECURSIVE parseGroups(_, _, _)
parseGroups(gs, args, d) ==
    IF gs = <<>> THEN d
    ELSE IF Head(gs).title \in Reserved
    THEN parseGroups(Tail(gs), args, parseActions(Head(gs).actions, args, d))
    ELSE parseGroups(Tail(gs), args,
                     Put(d, Head(gs).title,
                         DictV(parseActions(Head(gs).actions, args, EmptyDict))))

\* parseIntoGroups, args being vars(parser.parse_args())
parseIntoGroups(p, args) == DictV(parseGroups(p, args, EmptyDict))

-----------------------------------------------------------------------------
(* gui.py.  A panel (ArgGroupWidget) is its name and its form rows; a row is
   its label and its field, and remembers the action it was made for (the
   group's index in the parser and the action's position in the group). *)

Row(label, field, gi, k) == [label |-> label, field |-> field, group |-> gi, pos |-> k]

\* ArgGroupWidget.addArguments
RECURSIVE addArguments(_, _, _, _)
addArguments(panel, p, gi, positions) ==
    IF positions = <<>> THEN panel
    ELSE LET a == p[gi].actions[Head(positions)]
         IN  addArguments([panel EXCEPT !.rows =
                              Append(@, Row(a.dest, makeWidget(a, None), gi, Head(positions)))],
                          p, gi, Tail(positions))

ArgGroupWidget(name) == [name |-> name, rows |-> <<>>]

RECURSIVE buildGroups(_, _, _, _)

\* a plausible slip: a reserved group gets a panel of its own even when the
\* stack holds one already
buildGroupsApart(p, orphan, gi, d) ==
    IF gi > Len(p) THEN d
    ELSE LET arguments == organizeIntoGroups(p)[gi]
             name == IF p[gi].title \in Reserved THEN orphan ELSE p[gi].title
         IN  buildGroups(p, orphan, gi + 1,
                         [list |-> Append(d.list, name),
                          stack |-> Append(d.stack,
                                           addArguments(ArgGroupWidget(name), p, gi, arguments))])

\* the loop of ArgparseListWidget.__init__ from group gi on; d is the group
\* list and the widget stack built so far
buildGroups(p, orphan, gi, d) ==
    IF gi > Len(p) THEN d
    ELSE LET arguments == organizeIntoGroups(p)[gi]
             new(name) == [list |-> Append(d.list, name),
                           stack |-> Append(d.stack,
                                            addArguments(ArgGroupWidget(name), p, gi, arguments))]
         IN  IF p[gi].title \in Reserved
             THEN IF Len(d.stack) > 0
                  THEN buildGroups(p, orphan, gi + 1,
                                   [d EXCEPT !.stack[1] = addArguments(@, p, gi, arguments)])
                  ELSE buildGroups(p, orphan, gi + 1, new(orphan))
             ELSE buildGroups(p, orphan, gi + 1, new(p[gi].title))

\* ArgparseListWidget(argParser, orphanGroupName)
ArgparseListWidget(p, orphan) == buildGroups(p, orphan, 1, [list |-> <<>>, stack |-> <<>>])

\* ArgGroupWidget.getValues
RECURSIVE rowValues(_, _)
rowValues(rows, values) ==
    IF rows = <<>> THEN values
    ELSE rowValues(Tail(rows),
                   Put(values, Head(rows).label, ResetableWidget_value(Head(rows).field)))

ArgGroupWidget_getValues(panel) == rowValues(panel.rows, EmptyDict)

RECURSIVE collect(_, _, _, _, _)

\* a plausible slip: the orphan panel is nested under its name like the others
collectNested(list, stack, orphan, i, d) ==
    IF i > Len(stack) THEN d
    ELSE collect(list, stack, orphan, i + 1,
                 Put(d, list[i], DictV(ArgGroupWidget_getValues(stack[i]))))

\* the loop of ArgparseListWidget.getValues from panel i on
collect(list, stack, orphan, i, d) ==
    IF i > Len(stack) THEN d
    ELSE IF list[i] = orphan
    THEN collect(list, stack, orphan, i + 1, Merge(d, ArgGroupWidget_getValues(stack[i])))
    ELSE collect(list, stack, orphan, i + 1,
                 Put(d, list[i], DictV(ArgGroupWidget_getValues(stack[i]))))

getValues(list, stack, orphan) == DictV(collect(list, stack, orphan, 1, EmptyDict))

\* itemName in values, and values[itemName].  A mapping answers both; a str
\* or a list answers the first (by substring, by element) and raises on the
\* second; anything else raises TypeError on the first.  The texts of this
\* model hold one character or none, so a name is a substring of a text only
\* when it is the text.
IsIn(itemName, values) ==
    CASE Tag(values) = "dict" -> itemName \in DOMAIN Payload(values)
      [] Tag(values) = "str" -> Payload(values) = itemName
      [] Tag(values) = "list" ->
            \E i \in 1..Len(Payload(values)) : Payload(values)[i] = StrV(itemName)
      [] OTHER -> FALSE

InRaises(values) == Tag(values) \notin {"dict", "str", "list", "tuple"}

\* what a setValues gives: the rows or panels afterwards, whether it raised,
\* and whether a widget emitted valueChanged meanwhile
Set(x, raised, sig) == [x |-> x, raised |-> raised, emitted |-> sig]

\* the loop of ArgGroupWidget.setValues from row i on
RECURSIVE setRows(_, _, _, _)

\* a plausible slip: a row whose name the mapping lacks is cleared
setRowsOrClear(rows, values, i, sig) ==
    IF i > Len(rows) THEN Set(rows, FALSE, sig)
    ELSE IF InRaises(values) THEN Set(rows, TRUE, sig)
    ELSE IF Tag(values) # "dict" THEN Set(rows, TRUE, sig)
    ELSE LET r == ResetableWidget_setValue(rows[i].field,
                     IF IsIn(rows[i].label, values) THEN Payload(values)[rows[i].label]
                     ELSE None)
         IN  setRows([rows EXCEPT ![i].field = r.w], values, i + 1, sig \/ r.emitted)

setRows(rows, values, i, sig) ==
    IF i > Len(rows) THEN Set(rows, FALSE, sig)
    ELSE IF InRaises(values) THEN Set(rows, TRUE, sig)
    ELSE IF ~IsIn(rows[i].label, values) THEN setRows(rows, values, i + 1, sig)
    ELSE IF Tag(values) # "dict" THEN Set(rows, TRUE, sig)
    ELSE LET r == ResetableWidget_setValue(rows[i].field, Payload(values)[rows[i].label])
         IN  setRows([rows EXCEPT ![i].field = r.w], values, i + 1, sig \/ r.emitted)

ArgGroupWidget_setValues(panel, values) ==
    LET r == setRows(panel.rows, values, 1, FALSE)
    IN  Set([panel EXCEPT !.rows = r.x], r.raised, r.emitted)

RECURSIVE setPanels(_, _, _, _, _)

\* a plausible slip: every panel is given the top-level mapping
setPanelsTopOnly(list, stack, values, i, sig) ==
    IF i > Len(stack) THEN Set(stack, FALSE, sig)
    ELSE LET r == ArgGroupWidget_setValues(stack[i], values)
         IN  IF r.raised THEN Set([stack EXCEPT ![i] = r.x], TRUE, sig \/ r.emitted)
             ELSE setPanels(list, [stack EXCEPT ![i] = r.x], values, i + 1, sig \/ r.emitted)

\* the loop of ArgparseListWidget.setValues from panel i on
setPanels(list, stack, values, i, sig) ==
    IF i > Len(stack) THEN Set(stack, FALSE, sig)
    ELSE LET r == ArgGroupWidget_setValues(stack[i],
                     IF list[i] \in DOMAIN Payload(values) THEN Payload(values)[list[i]]
                     ELSE values)
         IN  IF r.raised THEN Set([stack EXCEPT ![i] = r.x], TRUE, sig \/ r.emitted)
             ELSE setPanels(list, [stack EXCEPT ![i] = r.x], values, i + 1, sig \/ r.emitted)

setValues(list, stack, values) == setPanels(list, stack, values, 1, FALSE)

-----------------------------------------------------------------------------
(* The parsers: what ArgumentParser() and add_argument_group, add_argument
   build.  The two groups of the constructor come first; argparse checks
   neither the titles nor the names against each other. *)

StructDests == {"x", "G"}
Titles == {"G", "H", "optional arguments"}

StructAction(dest) == Action("store", dest, "str", None, None, None)

ActionSeqs(n) == SeqsUpTo({StructAction(d) : d \in StructDests}, n)

UserGroups == {Group(t, as) : t \in Titles, as \in ActionSeqs(MaxActions)}

Parsers ==
    {<<Group("positional arguments", pa),
       Group("optional arguments", <<HelpAction>> \o oa)>> \o ug :
        pa \in ActionSeqs(1), oa \in ActionSeqs(MaxActions),
        ug \in SeqsUpTo(UserGroups, MaxUserGroups)}

\* vars(parser.parse_args()): one name was given on the command line
ParsedArgs ==
    {[d \in StructDests \cup {"help"} |-> IF d = e THEN StrV("a") ELSE None] : e \in StructDests}

InitParser ==
    /\ mode = "parser"
    /\ serialLoaded = FALSE
    /\ comports = <<>>
    /\ argument = HelpAction
    /\ widget = makeWidgetOfType("str")
    /\ emitted = FALSE
    /\ last = Op("parser", None)
    /\ parser \in Parsers
    /\ orphanGroupName \in {"Main", "G"}
    /\ groupList = <<>>
    /\ widgetStack = NoDialog
    /\ valueAdjusted = FALSE
    /\ groups = NoResult
    /\ settings = NoResult

\* groupingTools.parseIntoGroups(parser)
ParseIntoGroups ==
    /\ \E args \in ParsedArgs :
          /\ groups' = parseIntoGroups(parser, args)
          /\ last' = Op("parseIntoGroups", DictV(args))
    /\ UNCHANGED <<mode, serialLoaded, comports, argument, widget, emitted, parser,
                   orphanGroupName, groupList, widgetStack, valueAdjusted, settings>>

\* ArgparseListWidget(parser, orphanGroupName)
Construct ==
    /\ widgetStack = NoDialog
    /\ groupList' = ArgparseListWidget(parser, orphanGroupName).list
    /\ widgetStack' = ArgparseListWidget(parser, orphanGroupName).stack
    /\ UNCHANGED <<mode, serialLoaded, comports, argument, widget, emitted, last, parser,
                   orphanGroupName, valueAdjusted, groups, settings>>

\* ArgparseListWidget.getValues()
GetValues ==
    /\ widgetStack # NoDialog
    /\ settings' = getValues(groupList, widgetStack, orphanGroupName)
    /\ UNCHANGED <<mode, serialLoaded, comports, argument, widget, emitted, last, parser,
                   orphanGroupName, groupList, widgetStack, valueAdjusted, groups>>

NextParser ==
    \/ ParseIntoGroups
    \/ Construct
    \/ GetValues

SpecParser == InitParser /\ [][NextParser]_vars

-----------------------------------------------------------------------------
(* The dialog: ArgDialog(parser, orphanGroupName), then setValues and the
   user's operations on the rows *)

OptX == Action("store", "x", "str", None, None, None)
OptY == Action("store", "y", "int", SomeChoices, IntV(1), None)
OptZ == Action("store", "z", "list", None, None, None)
OptG == Action("store", "G", "str", None, None, None)

DialogParsers ==
    {<<Group("positional arguments", <<>>),
       Group("optional arguments", <<HelpAction, OptX>>),
       Group("G", <<OptY, OptZ>>)>>,
     <<Group("positional arguments", <<OptZ>>),
       Group("optional arguments", <<HelpAction, OptX>>)>>,
     <<Group("positional arguments", <<>>),
       Group("optional arguments", <<HelpAction, OptG>>),
       Group("G", <<OptY>>)>>,
     <<Group("positional arguments", <<>>),
       Group("optional arguments", <<HelpAction, OptY>>),
       Group("G", <<OptX>>),
       Group("H", <<>>)>>}

OrphanNames == {"Main", "G", "x"}

\* the values a caller sets an option of the dialog to
OptionValues(dest) ==
    {None} \cup
    (CASE dest = "y" -> {IntV(1), IntV(2), IntV(5)}
       [] dest = "z" -> {ListV(<<>>), ListV(<<StrV("a")>>)}
       [] OTHER -> {StrV("a")})

AllDests(p) == UNION {Dests(p[gi]) : gi \in 1..Len(p)}

\* the mappings shaped like the output of parseIntoGroups
FullMappings(p) ==
    {parseIntoGroups(p, args) :
        args \in {f \in [AllDests(p) -> UNION {OptionValues(d) : d \in AllDests(p)}] :
                    \A d \in AllDests(p) : f[d] \in OptionValues(d)}}

Restrict(f, keys) == [k \in keys |-> f[k]]

\* a mapping, and the mappings that lack one of its keys
Lacking(v) ==
    LET top == Payload(v)
    IN  {v} \cup {DictV(Restrict(top, DOMAIN top \ {k})) : k \in DOMAIN top}
        \cup UNION {{DictV(Put(top, g, DictV(Restrict(Payload(top[g]),
                                                     DOMAIN Payload(top[g]) \ {k}))))
                     : k \in DOMAIN Payload(top[g])}
                    : g \in {g \in DOMAIN top : Tag(top[g]) = "dict"}}

Mappings(p) == UNION {Lacking(v) : v \in FullMappings(p)}

Init ==
    /\ mode = "dialog"
    /\ serialLoaded = FALSE
    /\ comports = <<>>
    /\ argument = HelpAction
    /\ widget = makeWidgetOfType("str")
    /\ emitted = FALSE
    /\ last = Op("ArgDialog", None)
    /\ parser \in DialogParsers
    /\ orphanGroupName \in OrphanNames
    /\ groupList = ArgparseListWidget(parser, orphanGroupName).list
    /\ widgetStack = ArgparseListWidget(parser, orphanGroupName).stack
    /\ valueAdjusted = FALSE
    /\ groups = NoResult
    /\ settings = NoResult

\* ArgDialog.setValues(values)
SetValues ==
    \E values \in Mappings(parser) :
        LET r == setValues(groupList, widgetStack, values)
        IN  /\ widgetStack' = r.x
            /\ valueAdjusted' = r.emitted
            /\ last' = [op |-> "setValues", arg |-> values, raised |-> r.raised]
            /\ UNCHANGED <<mode, serialLoaded, comports, argument, widget, emitted, parser,
                           orphanGroupName, groupList, groups, settings>>

RowsAt == UNION {{<<i, r>> : r \in 1..Len(widgetStack[i].rows)} : i \in 1..Len(widgetStack)}

Field(ir) == widgetStack[ir[1]].rows[ir[2]].field

\* the row's widget ran an operation with result r: its valueChanged reaches
\* ArgGroupWidget.onValueChanged, and valueAdjusted is passed on to the dialog
RowStep(ir, r, name) ==
    /\ widgetStack' = [widgetStack EXCEPT ![ir[1]].rows[ir[2]].field = r.w]
    /\ valueAdjusted' = r.emitted
    /\ last' = Op(name, <<"row", ir[1], ir[2]>>)
    /\ UNCHANGED <<mode, serialLoaded, comports, argument, widget, emitted, parser,
                   orphanGroupName, groupList, groups, settings>>

\* the user presses the reset button of a row
ResetRow == \E ir \in RowsAt : RowStep(ir, reset(Field(ir)), "reset")

\* the user edits the text, the number, the choice, the colour or the file
EditRow == \E ir \in RowsAt : \E r \in UserOps(Field(ir)) : RowStep(ir, r, "edit")

AddItemRow ==
    \E ir \in RowsAt :
        /\ Field(ir).widget.kind = "ListWidget"
        /\ Len(Field(ir).widget.kids) < MaxRowKids
        /\ RowStep(ir, UserOp(Field(ir), ListWidget_addKid(Field(ir).widget)), "addItem")

AbandonItemRow ==
    \E ir \in RowsAt :
        /\ Field(ir).widget.kind = "ListWidget"
        /\ \E k \in 1..Len(Field(ir).widget.kids) :
              RowStep(ir, UserOp(Field(ir), abandon(Field(ir).widget, k)), "abandon")

EditItemRow ==
    \E ir \in RowsAt :
        /\ Field(ir).widget.kind = "ListWidget"
        /\ \E k \in 1..Len(Field(ir).widget.kids) :
              \E r \in UserOps(Field(ir).widget.kids[k]) :
                  RowStep(ir, UserOp(Field(ir), onChildValueChanged(Field(ir).widget, k, r)),
                          "editItem")

Next ==
    \/ SetValues
    \/ ResetRow
    \/ EditRow
    \/ AddItemRow
    \/ AbandonItemRow
    \/ EditItemRow

Spec == Init /\ [][Next]_vars

-----------------------------------------------------------------------------
(* Claims about the grouping and the layout *)

Named(p) == {gi \in 1..Len(p) : p[gi].title \notin Reserved}
Ungrouped(p) == {gi \in 1..Len(p) : p[gi].title \in Reserved}

\* the titles of the named groups differ from each other and from the names
\* of the options of the reserved groups
TitlesApart(p) ==
    /\ \A gi \in Named(p), gj \in Named(p) : gi # gj => p[gi].title # p[gj].title
    /\ \A gi \in Named(p), gj \in Ungrouped(p) : p[gi].title \notin Dests(p[gj])

\* what C3 says of the result res of parseIntoGroups for the parsed args
Flattened(p, res, args) ==
    LET top == Payload(res)
    IN  /\ \A gi \in Ungrouped(p) : \A d \in Dests(p[gi]) :
              d \in DOMAIN top /\ top[d] = args[d]
        /\ \A gi \in Named(p) :
              /\ p[gi].title \in DOMAIN top
              /\ Tag(top[p[gi].title]) = "dict"
              /\ \A d \in Dests(p[gi]) :
                    /\ d \in DOMAIN Payload(top[p[gi].title])
                    /\ Payload(top[p[gi].title])[d] = args[d]
        /\ "help" \notin DOMAIN top
        /\ \A key \in DOMAIN top :
              Tag(top[key]) = "dict" => "help" \notin DOMAIN Payload(top[key])

\* C3 as stated: parseIntoGroups puts every option of a reserved group at the
\* top level with its parsed value and every option of another group under
\* the group's title, gives every such group an entry, and leaves help out.
C3_AsStated ==
    groups # NoResult => Flattened(parser, groups, Payload(last.arg))

\* C3, amended: the same, for a parser whose named groups have titles that
\* differ from each other and from the names of the reserved groups' options.
C3_FlattenedWhenTitlesApart ==
    (groups # NoResult /\ TitlesApart(parser))
        => Flattened(parser, groups, Payload(last.arg))

C3_Witness ==
    /\ groups # NoResult
    /\ TitlesApart(parser)
    /\ \E gi \in Ungrouped(parser) : Dests(parser[gi]) # {}
    /\ \E gi \in Named(parser) : Dests(parser[gi]) # {}
    /\ \E gi \in Named(parser) : Dests(parser[gi]) = {}

\* the key structure of a nested mapping: the names at the top level, the
\* group names, and the names under each group name
KeyStructure(res) ==
    LET top == Payload(res)
    IN  {<<"option", k>> : k \in {k \in DOMAIN top : Tag(top[k]) # "dict"}}
        \cup {<<"group", k>> : k \in {k \in DOMAIN top : Tag(top[k]) = "dict"}}
        \cup UNION {{<<"under", k, d>> : d \in DOMAIN Payload(top[k])}
                    : k \in {k \in DOMAIN top : Tag(top[k]) = "dict"}}

\* C4 as stated: for every parser and every orphanGroupName the mapping read
\* from the dialog has the key structure of parseIntoGroups(parser).
C4_AsStated ==
    settings # NoResult =>
        \A args \in ParsedArgs :
            KeyStructure(settings) = KeyStructure(parseIntoGroups(parser, args))

\* C4, amended: the same for a parser whose named groups have titles that
\* differ from each other and from the names of the reserved groups' options,
\* and an orphanGroupName that is the title of no named group.
C4_SameKeysWhenNamesApart ==
    (/\ settings # NoResult
     /\ TitlesApart(parser)
     /\ \A gi \in Named(parser) : parser[gi].title # orphanGroupName)
        => \A args \in ParsedArgs :
              KeyStructure(settings) = KeyStructure(parseIntoGroups(parser, args))

C4_Witness ==
    /\ settings # NoResult
    /\ TitlesApart(parser)
    /\ \A gi \in Named(parser) : parser[gi].title # orphanGroupName
    /\ \E gi \in Ungrouped(parser) : Dests(parser[gi]) # {}
    /\ \E gi \in Named(parser) : Dests(parser[gi]) # {}
    /\ \E k \in DOMAIN Payload(settings) : Tag(Payload(settings)[k]) = "dict"
    /\ \E k \in DOMAIN Payload(settings) : Tag(Payload(settings)[k]) # "dict"

RowsOf(gi, k) ==
    {ir \in UNION {{<<i, r>> : r \in 1..Len(widgetStack[i].rows)}
                   : i \in 1..Len(widgetStack)} :
        /\ widgetStack[ir[1]].rows[ir[2]].group = gi
        /\ widgetStack[ir[1]].rows[ir[2]].pos = k}

\* every row stands in the panel of its action's group: the first panel,
\* named orphanGroupName, for a reserved group, and for another group a panel
\* of its own that bears its title
RowsInTheirPanels ==
    /\ \A i \in 1..Len(widgetStack) : \A r \in 1..Len(widgetStack[i].rows) :
          LET gi == widgetStack[i].rows[r].group
          IN  IF gi \in Ungrouped(parser)
              THEN i = 1 /\ groupList[1] = orphanGroupName
              ELSE /\ widgetStack[i].name = parser[gi].title
                   /\ \A q \in 1..Len(widgetStack[i].rows) :
                         widgetStack[i].rows[q].group = gi
    /\ Len(widgetStack) = 1 + Cardinality(Named(parser))
    /\ Len(groupList) = Len(widgetStack)
    /\ \A i \in 1..Len(widgetStack) : groupList[i] = widgetStack[i].name

\* the action at position k is the last of its group that has its name
LastOfItsName(g, k) ==
    \A j \in Positions(g) : g.actions[j].dest = g.actions[k].dest => j <= k

\* C7 as stated: every non-help action has exactly one form row, in the panel
\* of its group, both reserved groups share the panel named orphanGroupName,
\* and the group list names the panels one by one.
C7_AsStated ==
    widgetStack # NoDialog =>
        /\ \A gi \in 1..Len(parser) : \A k \in Positions(parser[gi]) :
              Cardinality(RowsOf(gi, k)) = 1
        /\ RowsInTheirPanels

\* C7, amended: every non-help action that is the last of its group with its
\* name has exactly one form row and an action whose name a later action of
\* its group repeats has none; the rest as stated.
C7_OneRowPerName ==
    widgetStack # NoDialog =>
        /\ \A gi \in 1..Len(parser) : \A k \in Positions(parser[gi]) :
              Cardinality(RowsOf(gi, k)) =
                  IF LastOfItsName(parser[gi], k) THEN 1 ELSE 0
        /\ RowsInTheirPanels

C7_Witness ==
    /\ widgetStack # NoDialog
    /\ \A gi \in Ungrouped(parser) : Dests(parser[gi]) # {}
    /\ Cardinality(Ungrouped(parser)) >= 2
    /\ \E gi \in Named(parser) : Len(parser[gi].actions) = 2
    /\ \E gi \in 1..Len(parser) : \E k \in Positions(parser[gi]) :
          ~LastOfItsName(parser[gi], k)

-----------------------------------------------------------------------------
(* Claims about one widget *)

value == ResetableWidget_value(widget)

Cleared == last.op = "clearValue" \/ (last.op = "setValue" /\ last.arg = None)

\* what C2 says of a wrapper w whose last write was `last`
ClearedOrExplicit ==
    /\ Cleared => value = None
    /\ (last.op = "setValue" /\ last.arg # None) =>
          value = Control_value(widget.widget) /\ value # None
    /\ (value = None) <=> widget.nulled
    /\ \A i \in 1..Len(widget.widget.kids) :
          widget.widget.kids[i].nullable =>
              ((ResetableWidget_value(widget.widget.kids[i]) = None)
                  <=> widget.widget.kids[i].nulled)

\* C2 as stated: around every control that is not a combo box, value() is
\* None after setValue(None) or clearValue(), is the control's value and not
\* None after setValue(x), and is None exactly when the nulled flag is set.
C2_AsStated == widget.nullable => ClearedOrExplicit

\* C2, amended: the same around every control that is neither a combo box nor
\* the serial port chooser, whose own value can be None.
C2_ClearedOrExplicit ==
    (widget.nullable /\ widget.widget.kind # "SerialPortChooser") => ClearedOrExplicit

\* the control emitted its change signal while it was cleared
C2_Witness ==
    /\ widget.nullable
    /\ widget.widget.kind # "SerialPortChooser"
    /\ last.op = "clearValue"
    /\ emitted
    /\ value = None

\* the control C5 names for an action
ClaimedControl(arg) ==
    IF arg.action = "store_const" THEN ComboBox(<<arg.const>>)
    ELSE IF arg.action \in {"store_true", "store_false"} THEN BoolSelector
    ELSE IF arg.choices # None THEN ComboBox(Payload(arg.choices))
    ELSE CASE arg.type = "int" -> SpinBox
           [] arg.type = "float" -> DoubleSpinBox
           [] arg.type = "bool" -> BoolSelector
           [] arg.type = "rgb" -> ColorWidget(FALSE)
           [] arg.type = "rgba" -> ColorWidget(TRUE)
           [] arg.type = "Path" -> FileChooser
           [] IsListType(arg.type) -> ListWidget(arg.type)
           [] OTHER -> LineEdit

SameControl(c, d) ==
    /\ c.kind = d.kind
    /\ c.items = d.items
    /\ c.hasAlpha = d.hasAlpha
    /\ c.subDataType = d.subDataType

Wrapped ==
    /\ widget.defaultValue = argument.default
    /\ widget.nullable = ~IsCombo(widget.widget)

\* C5 as stated: store_const, store_true and store_false first, then the
\* choices, then the type, and a line edit for every other type.
C5_AsStated == SameControl(widget.widget, ClaimedControl(argument)) /\ Wrapped

\* C5, amended: the same, but the type Serial gives a serial port chooser
\* when the serial module is loaded (after the file chooser's type and before
\* the list types).
C5_Precedence ==
    /\ SameControl(widget.widget,
                   IF /\ argument.action = "store"
                      /\ argument.choices = None
                      /\ argument.type = "Serial"
                      /\ serialLoaded
                   THEN SerialPortChooser
                   ELSE ClaimedControl(argument))
    /\ Wrapped

C5_Witness ==
    /\ argument.type = "Serial"
    /\ argument.choices = None
    /\ serialLoaded
    /\ widget.widget.kind = "SerialPortChooser"

\* C6 as stated: right after makeWidget and after every reset() the widget's
\* value() is the option's default.
C6_AsStated == last.op \in {"makeWidget", "reset"} => value = argument.default

IsList == widget.widget.kind = "ListWidget"

Items(w) == Payload(Control_value(w.widget))

Without(s, i) == SubSeq(s, 1, i - 1) \o SubSeq(s, i + 1, Len(s))

C10_AsStated ==
    (IsList /\ Len(widget.widget.kids) >= 1) =>
        /\ value # None
        /\ Len(Payload(value)) = Len(widget.widget.kids)

-----------------------------------------------------------------------------
(* Claims about the dialog *)

ActionsOf(p) == UNION {{<<gi, k>> : k \in Positions(p[gi])} : gi \in 1..Len(p)}

\* the option names and the group titles are pairwise distinct
NamesApart(p) ==
    /\ \A a \in ActionsOf(p), b \in ActionsOf(p) :
          a # b => p[a[1]].actions[a[2]].dest # p[b[1]].actions[b[2]].dest
    /\ \A gi \in Named(p), gj \in Named(p) : gi # gj => p[gi].title # p[gj].title
    /\ \A gi \in Named(p) : p[gi].title \notin AllDests(p)

OrphanApart(p, orphan) ==
    /\ orphan \notin AllDests(p)
    /\ \A gi \in Named(p) : p[gi].title # orphan

\* val is None or a value the control can hold: a text for a line edit, one
\* of the choices for a combo box, a list of such values for a list widget
CanHold(c, val) ==
    \/ val = None
    \/ c.kind = "LineEdit" /\ Tag(val) = "str"
    \/ c.kind = "ComboBox" /\ \E i \in 3..Len(c.items) : c.items[i] = val
    \/ /\ c.kind = "ListWidget"
       /\ Tag(val) = "list"
       /\ \A i \in 1..Len(Payload(val)) :
             Payload(val)[i] = None \/ Tag(Payload(val)[i]) = "str"

\* v is shaped like the output of parseIntoGroups and gives every option
\* None or a value its widget can hold
Complete(v) ==
    /\ v \in FullMappings(parser)
    /\ \A ir \in RowsAt :
          LET row == widgetStack[ir[1]].rows[ir[2]]
              top == Payload(v)
          IN  CanHold(row.field.widget,
                      IF row.group \in Ungrouped(parser) THEN top[row.label]
                      ELSE Payload(top[parser[row.group].title])[row.label])

RoundTrip ==
    /\ ~last.raised
    /\ getValues(groupList, widgetStack, orphanGroupName) = last.arg

\* C1 as stated: for a parser whose option names and group titles are
\* pairwise distinct, getValues() after setValues(v) returns v.
C1_AsStated ==
    (last.op = "setValues" /\ NamesApart(parser) /\ Complete(last.arg)) => RoundTrip

\* C1, amended: the same when orphanGroupName too differs from every option
\* name and every group title.
C1_RoundTripWhenOrphanApart ==
    (/\ last.op = "setValues"
     /\ NamesApart(parser)
     /\ OrphanApart(parser, orphanGroupName)
     /\ Complete(last.arg))
        => RoundTrip

\* a round trip after edits, with a cleared option, a choice and a list
C1_Witness ==
    /\ last.op = "setValues"
    /\ NamesApart(parser)
    /\ OrphanApart(parser, orphanGroupName)
    /\ Complete(last.arg)
    /\ Named(parser) # {}
    /\ \E ir \in RowsAt : ResetableWidget_value(Field(ir)) = None
    /\ \E ir \in RowsAt : ResetableWidget_value(Field(ir)) = IntV(2)
    /\ \E ir \in RowsAt : ResetableWidget_value(Field(ir)) = ListV(<<StrV("a")>>)

UserOpNames == {"edit", "addItem", "abandon", "editItem"}

\* C8 as stated: every user action that changes the value of an option's
\* widget makes ArgDialog emit valueAdjusted.
C8_AsStated ==
    [][(/\ last'.op \in UserOpNames
        /\ \E ir \in RowsAt :
              ResetableWidget_value(widgetStack'[ir[1]].rows[ir[2]].field)
                  # ResetableWidget_value(Field(ir)))
          => valueAdjusted']_vars

\* the mapping setValues(values) hands to panel i
Applied(i, values) ==
    IF groupList[i] \in DOMAIN Payload(values) THEN Payload(values)[groupList[i]]
    ELSE values

AppliedAreMappings(values) ==
    \A i \in 1..Len(widgetStack) : Tag(Applied(i, values)) = "dict"

\* the name of row ir is a key of the mapping applied to its panel
IsNamed(ir, values) ==
    /\ Tag(Applied(ir[1], values)) = "dict"
    /\ widgetStack[ir[1]].rows[ir[2]].label \in DOMAIN Payload(Applied(ir[1], values))

\* C11: setValues(values) hands values[groupName] to a panel whose name is a
\* key of values and values itself to every other panel; a widget whose name
\* is a key of the mapping its panel is handed is written with the value the
\* mapping gives it, and every other widget keeps its value and its cleared
\* state (even when what a panel is handed is no mapping).
C11_OnlyNamedWritten ==
    [][last'.op = "setValues" =>
          \A ir \in RowsAt :
              LET label == widgetStack[ir[1]].rows[ir[2]].label
                  after == widgetStack'[ir[1]].rows[ir[2]].field
              IN  IF IsNamed(ir, last'.arg)
                  THEN AppliedAreMappings(last'.arg) =>
                          after = ResetableWidget_setValue(
                                      Field(ir),
                                      Payload(Applied(ir[1], last'.arg))[label]).w
                  ELSE after = Field(ir)]_vars

\* after a setValues that named one option and not another, the one has the
\* value given and the other is still cleared, a third keeps the value it had
C11_Witness ==
    /\ last.op = "setValues"
    /\ ~last.raised
    /\ AppliedAreMappings(last.arg)
    /\ \E ir \in RowsAt :
          /\ IsNamed(ir, last.arg)
          /\ ResetableWidget_value(Field(ir)) # None
    /\ \E ir \in RowsAt :
          /\ ~IsNamed(ir, last.arg)
          /\ ResetableWidget_value(Field(ir)) # None
          /\ ~Field(ir).nulled
    /\ \E ir \in RowsAt :
          /\ ~IsNamed(ir, last.arg)
          /\ Field(ir).nullable
          /\ Field(ir).nulled

-----------------------------------------------------------------------------
(* Claims about the colour dialog *)

\* C12 as stated: when the user clicks a colour widget and the dialog ends
\* without being accepted, whatever colours were tried, value() afterwards
\* equals value() before the click, None included.
C12_AsStated ==
    [][(/\ widget.widget.kind = "ColorWidget"
        /\ last'.op = "click"
        /\ last'.arg = BoolV(FALSE))
          => ResetableWidget_value(widget') = ResetableWidget_value(widget)]_vars

=============================================================================
